---- MODULE Spec2Model ----
(***************************************************************************)
(* Model of src/main.rs: an AWS Lambda handler (`start`) that rebuilds the *)
(* request URI, starts a Routerify/hyper server on a fixed loopback        *)
(* address in a spawned task, sends the request to it with a hyper client, *)
(* signals shutdown and converts the response back.                        *)
(*                                                                         *)
(* Strings are sequences of one-character strings.  The handler runs once  *)
(* per invocation, one invocation after another (lambda::run); the server  *)
(* tasks spawned by earlier invocations keep running next to later ones.   *)
(* A panic unwinds the handler (its locals are dropped) and the harness    *)
(* goes on with the next invocation.                                       *)
(***************************************************************************)
EXTENDS Integers, Sequences, FiniteSets, TLC

VARIABLES
    pc,          \* position of the handler `start` ("harness" = not running)
    inv,         \* number of the current (or last) invocation, 0 before the first
    req,         \* the inbound lambda_http::Request of the current (or last) invocation
    uri,         \* the String `uri` built at lines 35-56
    outReq,      \* the hyper::Request built at lines 57-61
    parsedQuery, \* result of form-urlencoded parsing of the rebuilt query
    router,      \* State.count of the router built at line 64 by the current
                 \* (or last) invocation, or NoRouter
    listener,    \* which server holds 127.0.0.1:8080 (0 = nobody in this process)
    srv,         \* srv[i]: the server task spawned by invocation i
    handle,      \* the local `serve` of line 66: the Serve value, if any
    conn,        \* conn[i]: the loopback connection opened by invocation i
    resp,        \* the local `resp` of line 68 (status and headers part)
    result,      \* what the current invocation handed back to the harness
    calls,       \* how often the current invocation called serve/request/shutdown
    phases       \* orchestrator states the current invocation has entered

vars == <<pc, inv, req, uri, outReq, parsedQuery, router, listener, srv, handle,
          conn, resp, result, calls, phases>>

-----------------------------------------------------------------------------
(* Bounds of the model *)

MaxInvocations == 2
MaxPairs == 2

-----------------------------------------------------------------------------
(* Strings *)

SERVER_ADDR == <<"1","2","7",".","0",".","0",".","1",":","8","0","8","0">>

HttpPrefix == <<"h","t","t","p",":","/","/">>

DataPath == <<"/","d","a","t","a">>

RECURSIVE IndexOf(_, _, _)
IndexOf(s, c, i) ==
    IF i > Len(s) THEN 0
    ELSE IF s[i] = c THEN i
    ELSE IndexOf(s, c, i + 1)

RECURSIVE CountChar(_, _)
CountChar(s, c) ==
    IF s = <<>> THEN 0
    ELSE (IF Head(s) = c THEN 1 ELSE 0) + CountChar(Tail(s), c)

From(s, i) == SubSeq(s, i, Len(s))

(* url::form_urlencoded::byte_serialize: alphanumerics and * - . _ are kept, *)
(* a space becomes '+', every other byte becomes %XX.                        *)
Unreserved == {"a","b","c","d","x","y","0","1","2","3","6","*","-",".","_"}

HexOf(c) ==
    CASE c = "&" -> <<"2","6">>
      [] c = "=" -> <<"3","D">>
      [] c = "?" -> <<"3","F">>
      [] c = "+" -> <<"2","B">>
      [] c = "%" -> <<"2","5">>
      [] c = "/" -> <<"2","F">>
      [] c = "#" -> <<"2","3">>
      [] c = ":" -> <<"3","A">>

EncodeByteKeepPercent(c) ==
    IF c \in Unreserved \cup {"%"} THEN <<c>>
    ELSE IF c = " " THEN <<"+">>
    ELSE <<"%">> \o HexOf(c)

EncodeByte(c) ==
    IF c \in Unreserved THEN <<c>>
    ELSE IF c = " " THEN <<"+">>
    ELSE <<"%">> \o HexOf(c)

RECURSIVE EncodeStr(_)
EncodeStr(s) ==
    IF s = <<>> THEN <<>> ELSE EncodeByte(Head(s)) \o EncodeStr(Tail(s))

(* Serializer::new(String::new()).append_pair(key, value).finish() *)
AppendPair(key, value) == EncodeStr(key) \o <<"=">> \o EncodeStr(value)

RECURSIVE AppendParamsTrailingAmp(_, _)
AppendParamsTrailingAmp(u, params) ==
    IF params = <<>> THEN u
    ELSE LET p == Head(params)
         IN AppendParamsTrailingAmp(u \o AppendPair(p[1], p[2]) \o <<"&">>, Tail(params))

(* The while-let loop over the peekable iterator, lines 45-55. *)
RECURSIVE AppendParams(_, _)
AppendParams(u, params) ==
    IF params = <<>> THEN u
    ELSE LET p == Head(params)
             u1 == u \o AppendPair(p[1], p[2])
             u2 == IF Tail(params) # <<>> THEN u1 \o <<"&">> ELSE u1
         IN AppendParams(u2, Tail(params))

(* A reconstruction that keeps the authority of the inbound request. *)
ReconstructUriInboundAuthority(path, params) ==
    LET base == HttpPrefix \o req.uri.authority \o path
    IN IF params # <<>> THEN AppendParams(base \o <<"?">>, params) ELSE base

(* Lines 35-56: the String `uri`. *)
ReconstructUri(path, params) ==
    LET base == HttpPrefix \o SERVER_ADDR \o path
    IN IF params # <<>> THEN AppendParams(base \o <<"?">>, params) ELSE base

(* hyper::Uri::from_str, line 57: scheme "://" authority path [ "?" query ]. *)
(* A space (or any other byte outside the URI character set) is an error.    *)
NoQuery == <<"<none>">>

IsUriChar(c) == c # " "

UriError == [ok |-> FALSE]

ParseUri(s) ==
    LET colon == IndexOf(s, ":", 1)
        rest == From(s, colon + 3)
        slash == IndexOf(rest, "/", 1)
        tail == From(rest, slash)
        q == IndexOf(tail, "?", 1)
    IN IF \/ \E i \in 1..Len(s) : ~IsUriChar(s[i])
          \/ colon = 0
          \/ Len(s) < colon + 3
          \/ SubSeq(s, colon, colon + 2) # <<":","/","/">>
          \/ slash = 0
       THEN UriError
       ELSE [ok |-> TRUE,
             scheme |-> SubSeq(s, 1, colon - 1),
             authority |-> SubSeq(rest, 1, slash - 1),
             path |-> IF q = 0 THEN tail ELSE SubSeq(tail, 1, q - 1),
             query |-> IF q = 0 THEN NoQuery ELSE From(tail, q + 1)]

-----------------------------------------------------------------------------
(* Request and response values *)

(* String::into_bytes, line 31: the UTF-8 bytes of a character. *)
Utf8Char(c) ==
    CASE c = "h" -> <<104>>
      [] c = "i" -> <<105>>
      [] c = "e'" -> <<195, 169>>

RECURSIVE Utf8Bytes(_)
Utf8Bytes(s) ==
    IF s = <<>> THEN <<>> ELSE Utf8Char(Head(s)) \o Utf8Bytes(Tail(s))

MapBodyDropBinary(body) ==
    CASE body.kind = "Empty" -> <<>>
      [] body.kind = "Text" -> Utf8Bytes(body.data)
      [] body.kind = "Binary" -> <<>>

(* Lines 29-33: lambda_http::Body -> hyper::Body. *)
MapBody(body) ==
    CASE body.kind = "Empty" -> <<>>
      [] body.kind = "Text" -> Utf8Bytes(body.data)
      [] body.kind = "Binary" -> body.data

BodySamples ==
    { [kind |-> "Empty", data |-> <<>>],
      [kind |-> "Text", data |-> <<"h", "e'", "i">>],
      [kind |-> "Binary", data |-> <<0, 255>>] }

MethodSamples == {"GET", "POST"}

PathSamples == {DataPath, <<"/","x">>}

AuthoritySamples == {<<"a",".","x">>}

HeaderSamples ==
    { << <<"accept", "text/plain">> >>,
      << <<"host", "a.x">>, <<"x-id", "1">>, <<"x-id", "2">> >> }

(* Query parameters in the iteration order of the StrMap, keys distinct. *)
KeySamples == {<<>>, <<"a">>, <<"b"," ">>, <<"&","=">>, <<"%","2","6">>}

ValueSamples == {<<>>, <<"1"," ","2">>, <<"x","&","y">>, <<"+">>, <<"=","?">>}

PairSamples == KeySamples \X ValueSamples

DistinctKeys(s) == \A i, j \in 1..Len(s) : i # j => s[i][1] # s[j][1]

ParamSeqs ==
    {s \in UNION {[1..n -> PairSamples] : n \in 0..MaxPairs} : DistinctKeys(s)}

QuerySamples ==
    { <<>>, << <<<<"a">>, <<"1"," ","2">>>>, <<<<"b">>, <<"x","&","y">>>> >> }

RequestsWith(methods, paths, queries, bodies) ==
    [method : methods,
     uri : [scheme : {"https"}, authority : AuthoritySamples, path : paths],
     headers : HeaderSamples,
     params : queries,
     body : bodies]

(* The samples keep one header list per method. *)
HeadersFor(r) == (r.method = "GET") <=> (Len(r.headers) = 1)

(* The requests the harness hands to `start`: every method, path and query *)
(* sample without a body, and a POST with each kind of body.               *)
Requests ==
    {r \in RequestsWith(MethodSamples, PathSamples, QuerySamples,
                        {b \in BodySamples : b.kind = "Empty"})
              \cup RequestsWith({"POST"}, {DataPath}, {<<>>}, BodySamples) :
        HeadersFor(r)}

NoReq == [method |-> "none"]

(* State.count is a u8 drawn by rand::thread_rng().gen::<u8>(), line 64. *)
CountValues == {0, 42, 255}

NoRouter == 256

DigitChar(d) == <<"0","1","2","3","4","5","6","7","8","9">>[d + 1]

(* format!("{}", n) for an unsigned integer. *)
RECURSIVE Digits(_)
Digits(n) ==
    IF n < 10 THEN <<DigitChar(n)>> ELSE Digits(n \div 10) \o <<DigitChar(n % 10)>>

(* str::parse for an unsigned integer written in decimal digits. *)
RECURSIVE ParseNat(_)
ParseNat(s) ==
    IF s = <<>> THEN 0
    ELSE 10 * ParseNat(SubSeq(s, 1, Len(s) - 1))
         + (CHOOSE d \in 0..9 : DigitChar(d) = s[Len(s)])

(* SocketAddr::from_str, line 115: "a.b.c.d:port" as four octets and a port. *)
SocketAddrFromStr(s) ==
    LET colon == IndexOf(s, ":", 1)
        host == SubSeq(s, 1, colon - 1)
        d1 == IndexOf(host, ".", 1)
        d2 == IndexOf(host, ".", d1 + 1)
        d3 == IndexOf(host, ".", d2 + 1)
    IN [ip |-> <<ParseNat(SubSeq(host, 1, d1 - 1)),
                 ParseNat(SubSeq(host, d1 + 1, d2 - 1)),
                 ParseNat(SubSeq(host, d2 + 1, d3 - 1)),
                 ParseNat(From(host, d3 + 1))>>,
        port |-> ParseNat(From(s, colon + 1))]

(* format!("{}", addr) for a SocketAddr. *)
SocketAddrDisplay(a) ==
    Digits(a.ip[1]) \o <<".">> \o Digits(a.ip[2]) \o <<".">> \o Digits(a.ip[3])
        \o <<".">> \o Digits(a.ip[4]) \o <<":">> \o Digits(a.port)

NoAddr == [ip |-> <<0, 0, 0, 0>>, port |-> 0]

(* Server::local_addr, line 116: the address the listener is bound to.  The *)
(* port asked for is not 0, so the listener has the address asked for.      *)
local_addr == SocketAddrFromStr(SERVER_ADDR)

(* get_count, lines 87-91: 200 OK with body "Count: <count>". *)
get_count(state) ==
    [status |-> 200, body |-> <<"C","o","u","n","t",":"," ">> \o Digits(state)]

(* Routerify's default handler for a request no route matches. *)
NotFound == [status |-> 404, body |-> <<"N","o","t"," ","F","o","u","n","d">>]

(* router, lines 83-85: the single route GET /data. *)
Route(request, state) ==
    IF request.method = "GET" /\ request.uri.path = DataPath
    THEN get_count(state)
    ELSE NotFound

NoResp == [status |-> 0, body |-> <<>>]

(* String::from_utf8, line 75.  A response body is a sequence of bytes, each *)
(* written as the character it encodes; "0xFF" stands for a byte that never *)
(* occurs in valid UTF-8.                                                   *)
ValidUtf8(bytes) == \A i \in 1..Len(bytes) : bytes[i] # "0xFF"

-----------------------------------------------------------------------------
(* State of an invocation *)

Ids == 1..MaxInvocations

NoSrv == [state |-> "none", count |-> NoRouter, rx |-> "none", addr |-> NoAddr]

NoConn == [target |-> 0, srv |-> "none", cli |-> "none",
           request |-> NoReq, resp |-> NoResp]

NoCalls == [serve |-> 0, request |-> 0, shutdown |-> 0]

NoResult == [kind |-> "none"]

Panicked(why) == [kind |-> "panic", why |-> why]

(* The values the state takes. *)
TypeOK ==
    /\ pc \in {"harness", "translate", "router", "serve", "serve_spawn", "request",
               "await_resp", "shutdown", "read_body", "decode", "parsed"}
    /\ inv \in 0..MaxInvocations
    /\ router \in CountValues \cup {NoRouter}
    /\ listener \in {0} \cup Ids
    /\ handle \in {"none", "live", "consumed", "dropped"}
    /\ \A i \in Ids :
         /\ srv[i].state \in {"none", "bound", "accepting", "draining", "done", "panicked"}
         /\ srv[i].count \in CountValues \cup {NoRouter}
         /\ srv[i].rx \in {"none", "open", "signaled", "closed"}
         /\ srv[i].addr \in {NoAddr, local_addr}
         /\ conn[i].target \in {0} \cup Ids
         /\ conn[i].srv \in {"none", "queued", "accepted", "headers_sent", "finished",
                             "aborted"}
         /\ conn[i].cli \in {"none", "waiting", "headers", "drained", "closed", "refused"}
    /\ result.kind \in {"none", "ok", "err", "panic"}
    /\ calls \in [serve : 0..1, request : 0..1, shutdown : 0..1]

Init ==
    /\ pc = "harness"
    /\ inv = 0
    /\ req = NoReq
    /\ uri = <<>>
    /\ outReq = NoReq
    /\ parsedQuery = <<>>
    /\ router = NoRouter
    /\ listener = 0
    /\ srv = [i \in Ids |-> NoSrv]
    /\ handle = "none"
    /\ conn = [i \in Ids |-> NoConn]
    /\ resp = NoResp
    /\ result = NoResult
    /\ calls = NoCalls
    /\ phases = <<>>

(* lambda::run(handler(start)), line 18: the harness calls `start` with the *)
(* next event once the previous call has returned or panicked.              *)
Invoke ==
    /\ pc = "harness"
    /\ inv < MaxInvocations
    /\ inv' = inv + 1
    /\ req' \in Requests
    /\ router' = NoRouter
    /\ pc' = "translate"
    /\ phases' = <<>>
    /\ result' = NoResult
    /\ calls' = NoCalls
    /\ handle' = "none"
    /\ UNCHANGED <<uri, outReq, parsedQuery, listener, srv, conn, resp>>

(* `start` returns or unwinds: the outcome goes to the harness and the locals *)
(* are dropped.  Dropping a Serve that was not consumed by shutdown drops its *)
(* Sender; dropping the response drops the connection and what was not read   *)
(* from it.  `h`, `s` and `c` are the handle, the servers and the connections *)
(* as the returning step leaves them.                                         *)
Finish(outcome, ph, h, s, c) ==
    /\ pc' = "harness"
    /\ result' = outcome
    /\ phases' = ph \o <<"Done">>
    /\ uri' = <<>>
    /\ outReq' = NoReq
    /\ resp' = NoResp
    /\ UNCHANGED <<req, router>>
    /\ handle' = IF h = "live" THEN "dropped" ELSE h
    /\ srv' = [s EXCEPT ![inv].rx = IF h = "live" /\ @ = "open" THEN "closed" ELSE @]
    /\ conn' = [c EXCEPT ![inv].cli =
                             IF @ \in {"waiting", "headers"} THEN "closed" ELSE @,
                         ![inv].resp =
                             IF c[inv].cli \in {"waiting", "headers"} THEN NoResp ELSE @]

(* Lines 26-61: the request translation. *)
Translate ==
    /\ pc = "translate"
    /\ LET u == ReconstructUri(req.uri.path, req.params)
           parsed == ParseUri(u)
           ph == Append(phases, "Translate")
       IN IF parsed.ok
          THEN /\ uri' = u
               /\ outReq' = [method |-> req.method,
                             headers |-> req.headers,
                             uri |-> parsed,
                             body |-> MapBody(req.body)]
               /\ pc' = "router"
               /\ phases' = ph
               /\ UNCHANGED <<req, router, resp, result, handle, srv, conn>>
          ELSE Finish(Panicked("uri"), ph, handle, srv, conn)
    /\ UNCHANGED <<inv, parsedQuery, listener, calls>>

(* Line 64: fresh State{count} and the router built from it. *)
BuildRouter ==
    /\ pc = "router"
    /\ \E c \in CountValues : router' = c
    /\ pc' = "serve"
    /\ phases' = Append(phases, "Idle")
    /\ UNCHANGED <<inv, req, uri, outReq, parsedQuery, listener, srv, handle, conn,
                   resp, result, calls>>

ServeBindDeferred ==
    /\ pc = "serve"
    /\ calls' = [calls EXCEPT !.serve = @ + 1]
    /\ srv' = [srv EXCEPT ![inv] = [state |-> "bound", count |-> router, rx |-> "none",
                                addr |-> local_addr]]
    /\ pc' = "serve_spawn"
    /\ phases' = Append(phases, "ServerStarting")
    /\ UNCHANGED <<inv, req, uri, outReq, parsedQuery, router, listener, handle, conn,
                   resp, result>>

ServeBindShared ==
    /\ pc = "serve"
    /\ calls' = [calls EXCEPT !.serve = @ + 1]
    /\ listener' = IF listener = 0 THEN inv ELSE listener
    /\ srv' = [srv EXCEPT ![inv] = [state |-> "bound", count |-> router, rx |-> "none",
                                addr |-> local_addr]]
    /\ pc' = "serve_spawn"
    /\ phases' = Append(phases, "ServerStarting")
    /\ UNCHANGED <<inv, req, uri, outReq, parsedQuery, router, handle, conn, resp,
                   result>>

ServeBindSpawnsFirst ==
    /\ pc = "serve"
    /\ calls' = [calls EXCEPT !.serve = @ + 1]
    /\ \E busy \in BOOLEAN :
         LET ph == Append(phases, "ServerStarting")
             spawned == [srv EXCEPT ![inv] =
                            [state |-> "accepting", count |-> router, rx |-> "closed",
                                addr |-> local_addr]]
         IN IF listener # 0 \/ busy
            THEN /\ Finish(Panicked(IF listener # 0 THEN "bind-own" ELSE "bind-busy"),
                           ph, handle, spawned, conn)
                 /\ UNCHANGED listener
            ELSE /\ listener' = inv
                 /\ srv' = [srv EXCEPT ![inv] =
                               [state |-> "bound", count |-> router, rx |-> "none",
                                addr |-> local_addr]]
                 /\ pc' = "serve_spawn"
                 /\ phases' = ph
                 /\ UNCHANGED <<req, uri, outReq, router, handle, conn, resp, result>>
    /\ UNCHANGED <<inv, parsedQuery>>

(* serve, lines 115-117, called at line 66: Server::bind binds and listens on *)
(* SERVER_ADDR at once and panics when the address cannot be bound, either    *)
(* because a server of this process still holds it or because something else  *)
(* on the host does (`busy`).                                                 *)
ServeBind ==
    /\ pc = "serve"
    /\ calls' = [calls EXCEPT !.serve = @ + 1]
    /\ \E busy \in BOOLEAN :
         LET ph == Append(phases, "ServerStarting")
         IN IF listener # 0 \/ busy
            THEN /\ Finish(Panicked(IF listener # 0 THEN "bind-own" ELSE "bind-busy"),
                           ph, handle, srv, conn)
                 /\ UNCHANGED listener
            ELSE /\ listener' = inv
                 /\ srv' = [srv EXCEPT ![inv] =
                               [state |-> "bound", count |-> router, rx |-> "none",
                                addr |-> local_addr]]
                 /\ pc' = "serve_spawn"
                 /\ phases' = ph
                 /\ UNCHANGED <<req, uri, outReq, router, handle, conn, resp, result>>
    /\ UNCHANGED <<inv, parsedQuery>>

(* serve, lines 119-129: the oneshot channel, the spawned task that awaits the *)
(* graceful server, and the returned Serve.                                    *)
ServeSpawn ==
    /\ pc = "serve_spawn"
    /\ srv' = [srv EXCEPT ![inv].state = "accepting", ![inv].rx = "open"]
    /\ handle' = "live"
    /\ pc' = "request"
    /\ phases' = Append(phases, "ServerReady")
    /\ UNCHANGED <<inv, req, uri, outReq, parsedQuery, router, listener, conn, resp,
                   result, calls>>

(* Line 68, Client::new().request(req): connect to the authority of the URI.  *)
(* Whoever listens on the address gets the connection (it waits in the accept *)
(* queue); with no listener the connection is refused and unwrap panics.      *)
SendRequest ==
    /\ pc = "request"
    /\ calls' = [calls EXCEPT !.request = @ + 1]
    /\ LET ph == Append(phases, "Dispatching")
       IN IF listener = 0
          THEN Finish(Panicked("refused"), ph, handle, srv,
                      [conn EXCEPT ![inv].cli = "refused"])
          ELSE /\ conn' = [conn EXCEPT ![inv] =
                              [target |-> listener, srv |-> "queued", cli |-> "waiting",
                               request |-> outReq, resp |-> NoResp]]
               /\ pc' = "await_resp"
               /\ phases' = ph
               /\ UNCHANGED <<req, uri, outReq, router, resp, result, handle, srv>>
    /\ UNCHANGED <<inv, parsedQuery, listener>>

LoopbackFailRetry ==
    /\ pc = "await_resp"
    /\ pc' = "request"
    /\ conn' = [conn EXCEPT ![inv].cli = "closed"]
    /\ UNCHANGED <<inv, req, uri, outReq, parsedQuery, router, listener, srv, handle,
                   resp, result, calls, phases>>

(* Line 68, .await.unwrap() on Err: the loopback call failed (reset, protocol *)
(* error); the handler panics with the Serve still live.                      *)
LoopbackFail ==
    /\ pc = "await_resp"
    /\ Finish(Panicked("dispatch"), Append(phases, "ResponseReady"), handle, srv, conn)
    /\ UNCHANGED <<inv, parsedQuery, listener, calls>>

RecvResponseBuffered ==
    /\ pc = "await_resp"
    /\ conn[inv].srv = "finished"
    /\ resp' = [status |-> conn[inv].resp.status, body |-> conn[inv].resp.body]
    /\ conn' = [conn EXCEPT ![inv].cli = "drained"]
    /\ pc' = "shutdown"
    /\ phases' = Append(phases, "ResponseReady")
    /\ UNCHANGED <<inv, req, uri, outReq, parsedQuery, router, listener, srv, handle,
                   result, calls>>

RecvResponseNoShutdown ==
    /\ pc = "await_resp"
    /\ conn[inv].srv \in {"headers_sent", "finished"}
    /\ resp' = [status |-> conn[inv].resp.status, body |-> <<>>]
    /\ conn' = [conn EXCEPT ![inv].cli = "headers"]
    /\ pc' = "read_body"
    /\ phases' = Append(phases, "ResponseReady")
    /\ UNCHANGED <<inv, req, uri, outReq, parsedQuery, router, listener, srv, handle,
                   result, calls>>

(* Line 68, .await on Ok: the response head has arrived; the body is still a  *)
(* stream.                                                                    *)
RecvResponse ==
    /\ pc = "await_resp"
    /\ conn[inv].srv \in {"headers_sent", "finished"}
    /\ resp' = [status |-> conn[inv].resp.status, body |-> <<>>]
    /\ conn' = [conn EXCEPT ![inv].cli = "headers"]
    /\ pc' = "shutdown"
    /\ phases' = Append(phases, "ResponseReady")
    /\ UNCHANGED <<inv, req, uri, outReq, parsedQuery, router, listener, srv, handle,
                   result, calls>>

(* Line 70 and Serve::shutdown, lines 103-105: tx.send(()).unwrap().  The send *)
(* fails, and unwrap panics, when the receiver is gone.                        *)
Shutdown ==
    /\ pc = "shutdown"
    /\ calls' = [calls EXCEPT !.shutdown = @ + 1]
    /\ LET ph == Append(phases, "ShutdownRequested")
           h == "consumed"
       IN IF srv[inv].state = "accepting" /\ srv[inv].rx = "open"
          THEN /\ srv' = [srv EXCEPT ![inv].rx = "signaled"]
               /\ handle' = h
               /\ pc' = "read_body"
               /\ phases' = ph
               /\ UNCHANGED <<req, uri, outReq, router, resp, result, conn>>
          ELSE Finish(Panicked("send"), ph, h, srv, conn)
    /\ UNCHANGED <<inv, parsedQuery, listener>>

(* Lines 73-74, to_bytes(body).await on Ok: the whole body has been read. *)
ReadBody ==
    /\ pc = "read_body"
    /\ conn[inv].srv = "finished"
    /\ resp' = [resp EXCEPT !.body = conn[inv].resp.body]
    /\ conn' = [conn EXCEPT ![inv].cli = "drained", ![inv].resp = NoResp]
    /\ pc' = "decode"
    /\ UNCHANGED <<inv, req, uri, outReq, parsedQuery, router, listener, srv, handle,
                   result, calls, phases>>

(* Line 74, `?` on Err: reading the body failed; `start` returns the error. *)
ReadBodyFail ==
    /\ pc = "read_body"
    /\ Finish([kind |-> "err", why |-> "body"], phases, handle, srv, conn)
    /\ UNCHANGED <<inv, parsedQuery, listener, calls>>

(* Lines 75-76: String::from_utf8(..).unwrap() and the Ok response. *)
Decode ==
    /\ pc = "decode"
    /\ IF ValidUtf8(resp.body)
       THEN Finish([kind |-> "ok", status |-> resp.status, body |-> resp.body],
                   phases, handle, srv, conn)
       ELSE Finish(Panicked("utf8"), phases, handle, srv, conn)
    /\ UNCHANGED <<inv, parsedQuery, listener, calls>>

-----------------------------------------------------------------------------
(* The server task spawned at lines 125-127 by invocation i *)

InFlight(i) ==
    {j \in Ids : conn[j].target = i /\ conn[j].srv \in {"accepted", "headers_sent"}}

(* The accept loop takes a queued connection. *)
ServerAccept(i) ==
    /\ srv[i].state = "accepting"
    /\ listener = i
    /\ \E j \in Ids :
         /\ conn[j].target = i
         /\ conn[j].srv = "queued"
         /\ conn' = [conn EXCEPT ![j].srv = "accepted"]
    /\ UNCHANGED <<pc, inv, req, uri, outReq, parsedQuery, router, listener, srv,
                   handle, resp, result, calls, phases>>

(* RouterService dispatches the request to the router and writes the head of *)
(* the response.                                                             *)
ServerDispatch(i) ==
    /\ srv[i].state \in {"accepting", "draining"}
    /\ \E j \in Ids :
         /\ conn[j].target = i
         /\ conn[j].srv = "accepted"
         /\ conn' = [conn EXCEPT ![j].srv = "headers_sent",
                                 ![j].request = NoReq,
                                 ![j].resp = IF conn[j].cli = "closed"
                                             THEN NoResp
                                             ELSE Route(conn[j].request, srv[i].count)]
    /\ UNCHANGED <<pc, inv, req, uri, outReq, parsedQuery, router, listener, srv,
                   handle, resp, result, calls, phases>>

(* The connection writes the body and is finished. *)
ServerFinishConn(i) ==
    /\ srv[i].state \in {"accepting", "draining"}
    /\ \E j \in Ids :
         /\ conn[j].target = i
         /\ conn[j].srv = "headers_sent"
         /\ conn' = [conn EXCEPT ![j].srv = "finished"]
    /\ UNCHANGED <<pc, inv, req, uri, outReq, parsedQuery, router, listener, srv,
                   handle, resp, result, calls, phases>>

(* Connections of server i that were open when its listener or task went away. *)
Abort(c, i, states) ==
    [j \in Ids |->
        IF c[j].target = i /\ c[j].srv \in states
        THEN [c[j] EXCEPT !.srv = "aborted", !.request = NoReq, !.resp = NoResp]
        ELSE c[j]]

(* A server task that stops accepting without waiting for the signal. *)
ServerObserveShutdownEarly(i) ==
    /\ srv[i].state = "accepting"
    /\ srv[i].rx \in {"open", "signaled"}
    /\ srv' = [srv EXCEPT ![i].state = "draining", ![i].rx = "closed"]
    /\ listener' = IF listener = i THEN 0 ELSE listener
    /\ conn' = Abort(conn, i, {"queued"})
    /\ UNCHANGED <<pc, inv, req, uri, outReq, parsedQuery, router, handle, resp,
                   result, calls, phases>>

(* Lines 121-123: rx.await is Ok; the graceful server drops the listener and *)
(* waits for the connections it has accepted.                                *)
ServerObserveShutdown(i) ==
    /\ srv[i].state = "accepting"
    /\ srv[i].rx = "signaled"
    /\ srv' = [srv EXCEPT ![i].state = "draining"]
    /\ listener' = IF listener = i THEN 0 ELSE listener
    /\ conn' = Abort(conn, i, {"queued"})
    /\ UNCHANGED <<pc, inv, req, uri, outReq, parsedQuery, router, handle, resp,
                   result, calls, phases>>

(* Line 122: rx.await is Err because the Sender was dropped; unwrap panics in *)
(* the task, which drops the server, its listener and its connections.        *)
ServerSenderDropped(i) ==
    /\ srv[i].state = "accepting"
    /\ srv[i].rx = "closed"
    /\ srv' = [srv EXCEPT ![i].state = "panicked", ![i].count = NoRouter]
    /\ listener' = IF listener = i THEN 0 ELSE listener
    /\ conn' = Abort(conn, i, {"queued", "accepted", "headers_sent"})
    /\ UNCHANGED <<pc, inv, req, uri, outReq, parsedQuery, router, handle, resp,
                   result, calls, phases>>

(* Line 126: the graceful server completes once no connection is in flight. *)
ServerDrained(i) ==
    /\ srv[i].state = "draining"
    /\ InFlight(i) = {}
    /\ srv' = [srv EXCEPT ![i].state = "done", ![i].count = NoRouter]
    /\ UNCHANGED <<pc, inv, req, uri, outReq, parsedQuery, router, listener, handle,
                   conn, resp, result, calls, phases>>

ServerStep(i) ==
    \/ ServerAccept(i)
    \/ ServerDispatch(i)
    \/ ServerFinishConn(i)
    \/ ServerObserveShutdown(i)
    \/ ServerSenderDropped(i)
    \/ ServerDrained(i)

Next ==
    \/ Invoke
    \/ Translate
    \/ BuildRouter
    \/ ServeBind
    \/ ServeSpawn
    \/ SendRequest
    \/ LoopbackFail
    \/ RecvResponse
    \/ Shutdown
    \/ ReadBody
    \/ ReadBodyFail
    \/ Decode
    \/ \E i \in Ids : ServerStep(i)

(* tokio runs a spawned task whenever it can make progress. *)
Fairness == \A i \in Ids : WF_vars(ServerStep(i))

SpecFair == Init /\ [][Next]_vars /\ Fairness

Spec == Init /\ [][Next]_vars

-----------------------------------------------------------------------------
(* The request translation on its own: `start` from its entry to line 61 for *)
(* every query-parameter collection of the samples, followed by the          *)
(* receiver's form-urlencoded parsing of the query it was sent.              *)

RECURSIVE Split(_, _)
Split(s, sep) ==
    LET i == IndexOf(s, sep, 1)
    IN IF i = 0 THEN <<s>> ELSE <<SubSeq(s, 1, i - 1)>> \o Split(From(s, i + 1), sep)

Escaped == {"&", "=", "?", "+", "%", "/", "#", ":"}

IsHexPair(a, b) == \E c \in Escaped : HexOf(c) = <<a, b>>

FromHex(a, b) == CHOOSE c \in Escaped : HexOf(c) = <<a, b>>

(* form_urlencoded decoding: '+' is a space, %XX is the byte XX, and a '%' *)
(* that no two hex digits follow stands for itself.                        *)
RECURSIVE DecodeStr(_)
DecodeStr(s) ==
    IF s = <<>> THEN <<>>
    ELSE IF Head(s) = "+" THEN <<" ">> \o DecodeStr(Tail(s))
    ELSE IF Head(s) = "%" /\ Len(s) >= 3 /\ IsHexPair(s[2], s[3])
         THEN <<FromHex(s[2], s[3])>> \o DecodeStr(From(s, 4))
    ELSE <<Head(s)>> \o DecodeStr(Tail(s))

DecodePair(seg) ==
    LET e == IndexOf(seg, "=", 1)
    IN IF e = 0 THEN <<DecodeStr(seg), <<>>>>
       ELSE <<DecodeStr(SubSeq(seg, 1, e - 1)), DecodeStr(From(seg, e + 1))>>

(* url::form_urlencoded::parse: split on '&', skip empty pieces, split each *)
(* piece at its first '='.                                                  *)
ParseQueryString(q) ==
    LET segs == SelectSeq(Split(q, "&"), LAMBDA seg : seg # <<>>)
    IN [i \in 1..Len(segs) |-> DecodePair(segs[i])]

InitUri ==
    /\ pc = "translate"
    /\ inv = 1
    /\ req \in {r \in RequestsWith(MethodSamples, PathSamples, ParamSeqs, BodySamples) :
                   HeadersFor(r)}
    /\ uri = <<>>
    /\ outReq = NoReq
    /\ parsedQuery = <<>>
    /\ router = NoRouter
    /\ listener = 0
    /\ srv = [i \in Ids |-> NoSrv]
    /\ handle = "none"
    /\ conn = [i \in Ids |-> NoConn]
    /\ resp = NoResp
    /\ result = NoResult
    /\ calls = NoCalls
    /\ phases = <<>>

ParseQuery ==
    /\ pc = "router"
    /\ parsedQuery' = IF outReq.uri.query = NoQuery
                      THEN <<>>
                      ELSE ParseQueryString(outReq.uri.query)
    /\ pc' = "parsed"
    /\ UNCHANGED <<inv, req, uri, outReq, router, listener, srv, handle, conn, resp,
                   result, calls, phases>>

NextUri == Translate \/ ParseQuery

SpecUri == InitUri /\ [][NextUri]_vars

-----------------------------------------------------------------------------
(* Claims *)

Translated == pc \in {"router", "parsed"}

UriBase == HttpPrefix \o SERVER_ADDR \o req.uri.path

PairsOf(params) == {<<params[i][1], params[i][2]>> : i \in 1..Len(params)}

(* C9: for n query pairs iterated in order the rebuilt URI is the path alone, *)
(* without '?', when n = 0; otherwise it is the path, exactly one '?', and    *)
(* the n encoded key=value pairs in iteration order with exactly n-1 '&'      *)
(* between them and none in front or at the end.                              *)
C9_UriShape ==
    Translated =>
       LET n == Len(req.params)
           b == Len(UriBase)
           q == From(uri, b + 2)
       IN /\ SubSeq(uri, 1, b) = UriBase
          /\ n = 0 => uri = UriBase /\ CountChar(uri, "?") = 0
          /\ n > 0 =>
               /\ Len(uri) > b + 1
               /\ uri[b + 1] = "?"
               /\ CountChar(uri, "?") = 1
               /\ CountChar(q, "&") = n - 1
               /\ q[1] # "&"
               /\ q[Len(q)] # "&"
               /\ Split(q, "&") =
                     [i \in 1..n |-> AppendPair(req.params[i][1], req.params[i][2])]

C9_Witness ==
    /\ Translated
    /\ Len(req.params) = 2
    /\ req.params[1] = <<<<"&", "=">>, <<"x", "&", "y">>>>
    /\ req.params[2][2] = <<"=", "?">>

(* C10: parsing the query string produced by the reconstruction loop gives *)
(* back the original non-empty mapping, whatever the order.                *)
C10_RoundTrip ==
    (pc = "parsed" /\ req.params # <<>>) =>
       /\ Len(parsedQuery) = Len(req.params)
       /\ PairsOf(parsedQuery) = PairsOf(req.params)

C10_Witness ==
    /\ pc = "parsed"
    /\ Len(req.params) = 2
    /\ req.params[1] = <<<<"%", "2", "6">>, <<"+">>>>
    /\ req.params[2] = <<<<"b", " ">>, <<"x", "&", "y">>>>
    /\ parsedQuery = req.params

-----------------------------------------------------------------------------
(* Claims about the invocation *)

Returned == pc = "harness" /\ result.kind # "none"

(* C1: whenever serve returned a handle, shutdown has been invoked on it by *)
(* the time `start` returns or fails, on every exit path.                   *)
C1_ShutdownOnEveryExit ==
    (Returned /\ handle # "none") => calls.shutdown >= 1

C3_NeverRefused ==
    inv > 0 =>
       /\ handle = "live" => listener = inv /\ srv[inv].state = "accepting"
       /\ calls.request > 0 => handle # "none"
       /\ conn[inv].cli # "refused"
       /\ conn[inv].cli # "none" => conn[inv].target = inv

C3_Witness ==
    /\ inv = 2
    /\ pc = "await_resp"
    /\ conn[2].cli = "waiting"
    /\ conn[2].srv = "queued"
    /\ srv[1].state = "draining"

(* C4: the signal is sent exactly once per handle: never twice, and no handle *)
(* is discarded without it.                                                   *)
C4_SignalExactlyOnce ==
    /\ calls.shutdown <= 1
    /\ handle # "dropped"
    /\ (Returned /\ handle # "none") => calls.shutdown = 1 /\ srv[inv].rx = "signaled"

Stopped(i) == srv[i].state \in {"draining", "done", "panicked"}

(* C5: once the signal is sent the task eventually observes it, stops        *)
(* accepting, completes what is in flight and releases the listener; until   *)
(* the signal is sent it keeps accepting and dispatching.  The first half is *)
(* C5_SignalledServerDrains below; this is the second half: a server task    *)
(* that has stopped accepting has been sent the signal.                      *)
C5_ServesUntilSignalled ==
    \A i \in Ids : Stopped(i) => srv[i].rx = "signaled"

(* The first half of C5, under fair scheduling of the spawned tasks: a       *)
(* signalled server ends with nothing in flight and the listener released.   *)
C5_SignalledServerDrains ==
    \A i \in Ids :
       srv[i].rx = "signaled" ~>
          (srv[i].state = "done" /\ listener # i /\ InFlight(i) = {})

(* C6: serve and the loopback call happen at most once per invocation, and   *)
(* after a failure neither is attempted again: the invocation is over.       *)
C6_NoRetry ==
    /\ [](/\ calls.serve <= 1
          /\ calls.request <= 1
          /\ result.kind \in {"panic", "err"} => pc = "harness")
    /\ [][result.kind \in {"panic", "err"} => (calls' = calls \/ inv' = inv + 1)]_vars
    /\ [][calls'.request > calls.request => result.kind = "none"]_vars

C6_Witness ==
    /\ Returned
    /\ result = Panicked("dispatch")
    /\ calls.serve = 1
    /\ calls.request = 1

SpecStates ==
    <<"Idle", "ServerStarting", "ServerReady", "Dispatching", "ResponseReady",
      "ShutdownRequested", "Done">>

IsPrefix(s, t) == Len(s) <= Len(t) /\ s = SubSeq(t, 1, Len(s))

CodeOrder ==
    <<"Translate", "Idle", "ServerStarting", "ServerReady", "Dispatching",
      "ResponseReady", "ShutdownRequested">>

C8_OwnCount ==
    /\ (Returned /\ result.kind = "ok" /\ req.method = "GET" /\ req.uri.path = DataPath) =>
          /\ result.status = 200
          /\ router \in 0..255
          /\ SubSeq(result.body, 1, 7) = <<"C","o","u","n","t",":"," ">>
          /\ Len(result.body) > 7
          /\ ParseNat(From(result.body, 8)) = router
    /\ \A j \in Ids : conn[j].target \in {0, j}

C8_Witness ==
    /\ inv = 2
    /\ Returned
    /\ result.kind = "ok"
    /\ result.status = 200
    /\ router = 255
    /\ result.body = <<"C","o","u","n","t",":"," ","2","5","5">>
    /\ srv[1].state = "draining"
    /\ srv[1].count = 42

-----------------------------------------------------------------------------
(* Claims about the translation of the body and the head *)

Utf8Decode1(b) ==
    CASE b = <<104>> -> "h"
      [] b = <<105>> -> "i"
      [] b = <<195, 169>> -> "e'"

RECURSIVE Utf8Decode(_)
Utf8Decode(bytes) ==
    IF bytes = <<>> THEN <<>>
    ELSE IF Head(bytes) < 128
         THEN <<Utf8Decode1(<<Head(bytes)>>)>> \o Utf8Decode(Tail(bytes))
         ELSE <<Utf8Decode1(SubSeq(bytes, 1, 2))>> \o Utf8Decode(From(bytes, 3))

(* C11: the outbound body is empty for Empty, the UTF-8 bytes of s for       *)
(* Text(s) and b itself for Binary(b); method and headers are unchanged.     *)
C11_BodyAndHead ==
    Translated =>
       /\ outReq.method = req.method
       /\ outReq.headers = req.headers
       /\ req.body.kind = "Empty" => Len(outReq.body) = 0
       /\ req.body.kind = "Text" =>
            /\ \A i \in 1..Len(outReq.body) : outReq.body[i] \in 0..255
            /\ Utf8Decode(outReq.body) = req.body.data
       /\ req.body.kind = "Binary" => outReq.body = req.body.data

C11_Witness ==
    /\ Translated
    /\ req.method = "POST"
    /\ Len(req.headers) = 3
    /\ req.body.kind = "Text"
    /\ outReq.body = <<104, 195, 169, 105>>

-----------------------------------------------------------------------------
(* Claims about failures *)

Failed(whys) == Returned /\ result.kind \in {"panic", "err"} /\ result.why \in whys

(* C12: when the loopback call fails the invocation ends by returning an     *)
(* error value to the harness, not by a crash of the handler.                *)
C12_DispatchErrorReturned ==
    Failed({"dispatch", "refused"}) => result.kind = "err"

(* C13: when the listener cannot be bound the invocation fails, the failure  *)
(* reaches the harness, and no server task was spawned, no handle returned   *)
(* and no loopback call issued.                                              *)
C13_BindFailure ==
    /\ [](/\ pc \in {"serve_spawn", "request", "await_resp", "shutdown"} =>
               listener = inv
          /\ Failed({"bind-own", "bind-busy"}) =>
                /\ srv[inv] = NoSrv
                /\ handle = "none"
                /\ calls.request = 0
                /\ conn[inv] = NoConn
                /\ phases = <<"Translate", "Idle", "ServerStarting", "Done">>)
    /\ [][(pc = "serve" /\ pc' # "serve" /\ listener # 0) =>
             (pc' = "harness" /\ result'.kind = "panic" /\ result'.why = "bind-own")]_vars

C13_Witness ==
    /\ inv = 2
    /\ Failed({"bind-own"})
    /\ listener = 1
    /\ srv[1].state = "accepting"
    /\ srv[1].rx = "signaled"

-----------------------------------------------------------------------------
(* The response translation on its own: `start` from line 73 to its end for  *)
(* any response a server may send, valid UTF-8 or not.  The router of this   *)
(* repository only sends the bodies of get_count and NotFound; hyper hands   *)
(* over whatever bytes the body holds.                                       *)

ResponseSamples ==
    [status : {200, 404},
     body : { <<>>,
              get_count(7).body,
              NotFound.body,
              <<"0xFF">>,
              <<"C", "o", "0xFF", "u">> }]

InitResp ==
    /\ pc = "read_body"
    /\ inv = 1
    /\ req \in Requests
    /\ uri = ReconstructUri(req.uri.path, req.params)
    /\ outReq = [method |-> req.method,
                 headers |-> req.headers,
                 uri |-> ParseUri(uri),
                 body |-> MapBody(req.body)]
    /\ parsedQuery = <<>>
    /\ router \in CountValues
    /\ listener = 1
    /\ srv = [i \in Ids |->
                IF i = 1
                THEN [state |-> "accepting", count |-> router, rx |-> "signaled",
                                addr |-> local_addr]
                ELSE NoSrv]
    /\ handle = "consumed"
    /\ \E r \in ResponseSamples :
         /\ conn = [i \in Ids |->
                      IF i = 1
                      THEN [target |-> 1, srv |-> "finished", cli |-> "headers",
                            request |-> NoReq, resp |-> r]
                      ELSE NoConn]
         /\ resp = [status |-> r.status, body |-> <<>>]
    /\ result = NoResult
    /\ calls = [serve |-> 1, request |-> 1, shutdown |-> 1]
    /\ phases = CodeOrder

NextResp ==
    \/ ReadBody
    \/ ReadBodyFail
    \/ Decode
    \/ ServerObserveShutdown(1)
    \/ ServerDrained(1)

SpecResp == InitResp /\ [][NextResp]_vars

OwnBodiesAreUtf8 == ~Failed({"utf8"})

(* C15: from the moment serve returns the handle until shutdown is called on *)
(* it, the server task is accepting on its listener and the receiver of the  *)
(* one-shot channel exists; the send of shutdown therefore always succeeds.  *)
C15_HandleValidUntilShutdown ==
    /\ [](/\ handle = "live" =>
                /\ pc \in {"request", "await_resp", "shutdown"}
                /\ srv[inv].state = "accepting"
                /\ srv[inv].rx = "open"
                /\ listener = inv
          /\ ~Failed({"send"}))
    /\ [][calls'.shutdown > calls.shutdown =>
             /\ handle = "live"
             /\ handle' = "consumed"
             /\ srv[inv].rx = "open"
             /\ srv'[inv].rx = "signaled"
             /\ pc' = "read_body"]_vars

C15_Witness ==
    /\ inv = 2
    /\ pc = "read_body"
    /\ handle = "consumed"
    /\ calls.shutdown = 1
    /\ srv[2].state = "accepting"
    /\ srv[2].rx = "signaled"
    /\ srv[1].state = "panicked"

(* Serve::addr, lines 98-100: the address held by the Serve of this invocation. *)
Serve_addr == srv[inv].addr

(* C16: the authority of the outbound URI is the bound address the handle of *)
(* this invocation's server reports, whatever authority the inbound request  *)
(* carried, and its scheme is http.                                          *)
C16_AuthorityIsBoundAddr ==
    outReq # NoReq =>
       /\ outReq.uri.ok
       /\ outReq.uri.scheme = <<"h", "t", "t", "p">>
       /\ handle \in {"live", "consumed"} =>
             outReq.uri.authority = SocketAddrDisplay(Serve_addr)

C16_Witness ==
    /\ handle = "live"
    /\ pc = "await_resp"
    /\ req.uri.authority = <<"a", ".", "x">>
    /\ req.uri.scheme = "https"
    /\ outReq.uri.authority = <<"1","2","7",".","0",".","0",".","1",":","8","0","8","0">>
    /\ Serve_addr = [ip |-> <<127, 0, 0, 1>>, port |-> 8080]

(* C17: when an invocation returns, the listener it bound is no longer held *)
(* by its server task, and no later bind fails because the listener of an   *)
(* earlier invocation is still bound.                                       *)
C17_ListenerReleasedAtReturn ==
    /\ Returned => listener # inv
    /\ ~Failed({"bind-own"})

(* The same for invocations that return a response. *)
OkReturnReleasesListener ==
    (Returned /\ result.kind = "ok") => listener # inv

====
